---- MODULE Spec2Model ----
(***************************************************************************)
(* The StatsD line parser of src/parser.rs (statsd_metric, statsd,         *)
(* sample_rate, parse_metric_type, parse_unit) together with the nom       *)
(* combinators its grammar is written in.  A byte buffer is a sequence of  *)
(* one-byte strings.  A caller picks a buffer and hands it to one of the   *)
(* two public parsers; the parser's IResult is recorded in `result`.       *)
(***************************************************************************)
EXTENDS Integers, Sequences, FiniteSets

VARIABLES
    lines,      \* the lines the caller joins into the buffer (fields of each)
    trailer,    \* bytes the caller puts after the last line
    input,      \* the buffer handed to the parser
    alnum_eof,  \* what nom::alphanumeric returns on empty input in this build
    called,     \* which parser has been called: "", "statsd_metric", "statsd"
    result      \* the IResult the parser returned

vars == <<lines, trailer, input, alnum_eof, called, result>>

(***************************************************************************)
(* Bounds of the explored buffers.                                         *)
(***************************************************************************)
MaxName == 2
MaxValue == 2
MaxToken == 2
MaxRate == 3
MaxLines == 3

(***************************************************************************)
(* Bytes.  NL is the line delimiter; BadByte stands for a byte (0xFF) that *)
(* never occurs in valid UTF-8.                                            *)
(***************************************************************************)
NL == "\n"
BadByte == "0xFF"

Letters == {"a", "b", "c", "g", "s", "m", "x", "C"}
Digits == {"0", "1", "2", "5"}

DigitVal(b) == CASE b = "0" -> 0 [] b = "1" -> 1 [] b = "2" -> 2 [] b = "5" -> 5

is_alphanumeric(b) == b \in Letters \cup Digits

(***************************************************************************)
(* IResult and Option.                                                     *)
(***************************************************************************)
Done(i, o) == [tag |-> "Done", rest |-> i, out |-> o]
Error(kind) == [tag |-> "Error", rest |-> <<>>, out |-> kind]
Incomplete == [tag |-> "Incomplete", rest |-> <<>>, out |-> "Needed"]
NoResult == [tag |-> "Pending", rest |-> <<>>, out |-> ""]

None == <<>>
Some(x) == <<x>>

Drop(i, n) == SubSeq(i, n + 1, Len(i))
Take(i, n) == SubSeq(i, 1, n)
Min(a, b) == IF a < b THEN a ELSE b

(***************************************************************************)
(* nom combinators.                                                        *)
(***************************************************************************)
\* Index (from 0) of the first byte of i that is in arr, or -1.
Position(i, arr) ==
    IF \E k \in 1..Len(i) : i[k] \in arr
    THEN (CHOOSE k \in 1..Len(i) :
              i[k] \in arr /\ \A j \in 1..(k - 1) : i[j] \notin arr) - 1
    ELSE -1

\* is_not!(arr): the longest prefix with no byte of arr; an error when the
\* first byte is in arr; the whole input when no byte is in arr.
is_not(i, arr) ==
    LET n == Position(i, arr)
    IN  IF n = 0 THEN Error("IsNot")
        ELSE IF n > 0 THEN Done(Drop(i, n), Take(i, n))
        ELSE Done(<<>>, i)

\* tag!(t): t itself; Incomplete when the input is a proper prefix of t.
tag(i, t) ==
    LET m == Min(Len(i), Len(t))
    IN  IF Take(i, m) # Take(t, m) THEN Error("Tag")
        ELSE IF m < Len(t) THEN Incomplete
        ELSE Done(Drop(i, Len(t)), t)

\* Number of leading alphanumeric bytes of i.
AlnumRun(i) ==
    IF \E k \in 1..Len(i) : ~is_alphanumeric(i[k])
    THEN (CHOOSE k \in 1..Len(i) :
              ~is_alphanumeric(i[k]) /\ \A j \in 1..(k - 1) : is_alphanumeric(i[j])) - 1
    ELSE Len(i)

\* nom::alphanumeric: the leading run of alphanumeric bytes; an error when the
\* first byte is not alphanumeric.  On empty input nom 1.x returns Done with
\* an empty run and nom 2.x returns an error: alnum_eof is the build's choice.
alphanumeric(i) ==
    IF Len(i) = 0
    THEN IF alnum_eof = "Done" THEN Done(<<>>, i) ELSE Error("AlphaNumeric")
    ELSE IF AlnumRun(i) = 0 THEN Error("AlphaNumeric")
    ELSE Done(Drop(i, AlnumRun(i)), Take(i, AlnumRun(i)))

\* opt!(complete!(p)) applied to p's result r on input i: Some on Done, and
\* None with nothing consumed on Error and on Incomplete.
opt_complete(i, r) ==
    IF r.tag = "Done" THEN Done(r.rest, Some(r.out)) ELSE Done(i, None)

(***************************************************************************)
(* std conversions.                                                        *)
(***************************************************************************)
\* str::from_utf8: the bytes as text, or an error on a byte that is not UTF-8.
from_utf8(bs) ==
    IF \E k \in 1..Len(bs) : bs[k] = BadByte
    THEN [ok |-> FALSE, val |-> <<>>]
    ELSE [ok |-> TRUE, val |-> bs]

RECURSIVE DigitsVal(_)
DigitsVal(ds) ==
    IF Len(ds) = 0 THEN 0
    ELSE 10 * DigitsVal(Take(ds, Len(ds) - 1)) + DigitVal(ds[Len(ds)])

\* A decimal m / 10^e in lowest terms of ten.
RECURSIVE Normal(_, _)
Normal(m, e) ==
    IF e > 0 /\ m % 10 = 0 THEN Normal(m \div 10, e - 1) ELSE <<m, e>>

\* f64::from_str on the literals the modelled bytes can spell: digits with at
\* most one '.', at least one digit.  The value is the number, not the text.
f64_from_str(s) ==
    LET dots == {k \in 1..Len(s) : s[k] = "."}
        digs == {k \in 1..Len(s) : s[k] \in Digits}
    IN  IF digs = {} \/ Cardinality(dots) > 1
           \/ Cardinality(dots) + Cardinality(digs) # Len(s)
        THEN [ok |-> FALSE, val |-> <<0, 0>>]
        ELSE LET d == IF dots = {} THEN Len(s) + 1 ELSE CHOOSE k \in dots : TRUE
                 ds == Take(s, d - 1) \o Drop(s, Min(d, Len(s)))
             IN  [ok |-> TRUE, val |-> Normal(DigitsVal(ds), Len(s) - Min(d, Len(s)))]

(***************************************************************************)
(* src/parser.rs                                                           *)
(***************************************************************************)
\* parse_metric_type matching the reserved codes without regard to case.
parse_metric_type_nocase(s) ==
    CASE s \in {<<"c">>, <<"C">>} -> "Counter"
      [] s = <<"g">> -> "Gauge"
      [] s = <<"s">> -> "Set"
      [] OTHER -> "Sample"

parse_metric_type(s) ==
    CASE s = <<"c">> -> "Counter"
      [] s = <<"g">> -> "Gauge"
      [] s = <<"s">> -> "Set"
      [] OTHER -> "Sample"

parse_unit(s) ==
    CASE s = <<"c">> -> None
      [] s = <<"g">> -> None
      [] s = <<"s">> -> None
      [] OTHER -> Some(s)

\* sample_rate whose literal stops at the first '.' as well as at "\n".
sample_rate_dot(i) ==
    LET t == tag(i, <<"|", "@">>)
    IN  IF t.tag # "Done" THEN t
        ELSE LET r == is_not(t.rest, {NL, "."})
             IN  IF r.tag # "Done" THEN r
                 ELSE IF ~from_utf8(r.out).ok THEN Error("MapRes")
                 ELSE IF ~f64_from_str(from_utf8(r.out).val).ok THEN Error("MapRes")
                 ELSE Done(r.rest, f64_from_str(from_utf8(r.out).val).val)

\* chain!(tag!("|@") ~ n: map_res!(map_res!(is_not!("\n"), from_utf8), from_str))
sample_rate(i) ==
    LET t == tag(i, <<"|", "@">>)
    IN  IF t.tag # "Done" THEN t
        ELSE LET r == is_not(t.rest, {NL})
             IN  IF r.tag # "Done" THEN r
                 ELSE IF ~from_utf8(r.out).ok THEN Error("MapRes")
                 ELSE IF ~f64_from_str(from_utf8(r.out).val).ok THEN Error("MapRes")
                 ELSE Done(r.rest, f64_from_str(from_utf8(r.out).val).val)

statsd_metric(i) ==
    LET n == is_not(i, {":"})
    IN  IF n.tag # "Done" THEN n
        ELSE IF ~from_utf8(n.out).ok THEN Error("MapRes")
        ELSE LET c == tag(n.rest, <<":">>)
    IN  IF c.tag # "Done" THEN c
        ELSE LET v == is_not(c.rest, {"|"})
    IN  IF v.tag # "Done" THEN v
        ELSE IF ~from_utf8(v.out).ok THEN Error("MapRes")
        ELSE LET b == tag(v.rest, <<"|">>)
    IN  IF b.tag # "Done" THEN b
        ELSE LET t == alphanumeric(b.rest)
    IN  IF t.tag # "Done" THEN t
        ELSE IF ~from_utf8(t.out).ok THEN Error("MapRes")
        ELSE LET s == opt_complete(t.rest, sample_rate(t.rest))
    IN  Done(s.rest,
             [name |-> from_utf8(n.out).val,
              value |-> from_utf8(v.out).val,
              metric_type |-> parse_metric_type(from_utf8(t.out).val),
              unit |-> parse_unit(from_utf8(t.out).val),
              sample_rate |-> s.out])

\* chain!(m: statsd_metric ~ opt!(complete!(tag!("\n"))), || m)
statsd_line(i) ==
    LET m == statsd_metric(i)
    IN  IF m.tag # "Done" THEN m
        ELSE Done(opt_complete(m.rest, tag(m.rest, <<NL>>)).rest, m.out)

\* The loop of many1! pushing each new element at the front of the vector.
RECURSIVE many1_loop_front(_, _)
many1_loop_front(i, res) ==
    IF Len(i) = 0 THEN Done(i, res)
    ELSE LET r == statsd_line(i)
         IN  CASE r.tag = "Error" -> Done(i, res)
               [] r.tag = "Incomplete" -> Incomplete
               [] OTHER -> IF Len(r.rest) = Len(i) THEN Done(i, res)
                           ELSE many1_loop_front(r.rest, <<r.out>> \o res)

\* The loop of many1! after its first element.
RECURSIVE many1_loop(_, _)
many1_loop(i, res) ==
    IF Len(i) = 0 THEN Done(i, res)
    ELSE LET r == statsd_line(i)
         IN  CASE r.tag = "Error" -> Done(i, res)
               [] r.tag = "Incomplete" -> Incomplete
               [] OTHER -> IF Len(r.rest) = Len(i) THEN Done(i, res)
                           ELSE many1_loop(r.rest, Append(res, r.out))

\* many1!(chain!(m: statsd_metric ~ opt!(complete!(tag!("\n")))))
statsd(i) ==
    LET r == statsd_line(i)
    IN  CASE r.tag = "Error" -> Error("Many1")
          [] r.tag = "Incomplete" -> Incomplete
          [] OTHER -> IF Len(r.rest) = 0 THEN Done(r.rest, <<r.out>>)
                      ELSE many1_loop(r.rest, <<r.out>>)

(***************************************************************************)
(* The buffers a caller hands to the parser.  A line is written from six   *)
(* fields, name sep1 value sep2 token suffix; a well-formed line has       *)
(* sep1 = ":", sep2 = "|" and a suffix that is empty or "|@<rate>".        *)
(***************************************************************************)
SeqsUpTo(S, n) == UNION {[1..k -> S] : k \in 0..n}

Line(n, s1, v, s2, t, suf) ==
    [name |-> n, sep1 |-> s1, value |-> v, sep2 |-> s2, token |-> t, suffix |-> suf]

Render(p) == p.name \o p.sep1 \o p.value \o p.sep2 \o p.token \o p.suffix

RECURSIVE Join(_)
Join(ls) ==
    IF Len(ls) = 0 THEN <<>>
    ELSE IF Len(ls) = 1 THEN Render(ls[1])
    ELSE Render(ls[1]) \o <<NL>> \o Join(Tail(ls))

Buffer(ls, tr) == Join(ls) \o tr

NameBytes == {"a", NL, "|"}
ValueBytes == {"1", ":"}
TokenBytes == {"c", "g", "s", "m", "C"}
RateBytes == {"0", "1", ".", "x", NL}

\* name:value|token for every name, value and token within the bounds.
PlainLines ==
    {Line(n, <<":">>, v, <<"|">>, t, <<>>) :
        n \in SeqsUpTo(NameBytes, MaxName),
        v \in SeqsUpTo(ValueBytes, MaxValue),
        t \in SeqsUpTo(TokenBytes, MaxToken)}

\* A line of each metric type followed by a rate suffix or by other bytes.
RatedLines ==
    {Line(<<"a">>, <<":">>, <<"1">>, <<"|">>, t, lead \o lit) :
        t \in {<<"c">>, <<"g">>, <<"s">>, <<"m", "s">>},
        lead \in {<<"|", "@">>, <<"|">>, <<"!">>},
        lit \in SeqsUpTo(RateBytes, MaxRate)}

\* Lines with a missing delimiter, an empty field or bytes that are not text.
BrokenLines ==
    {Line(n, s1, v, s2, t, suf) :
        n \in {<<>>, <<"a">>, <<" ">>, <<BadByte>>},
        s1 \in {<<>>, <<":">>},
        v \in {<<>>, <<"1">>, <<BadByte>>},
        s2 \in {<<>>, <<"|">>},
        t \in {<<>>, <<"c">>, <<"m", "s">>},
        suf \in {<<>>, <<"|", "@", "0", ".", "1">>, <<"|", "@", "x">>}}

\* The lines batches are joined from: a line of each metric type as in the
\* module's tests, one of them with a rate, and lines that are blank, lack a
\* field or a delimiter, or carry a trailing byte.
BatchLines ==
    { Line(<<"a">>, <<":">>, <<"1">>, <<"|">>, <<"c">>, <<>>),
      Line(<<"b">>, <<":">>, <<"2">>, <<"|">>, <<"m", "s">>, <<>>),
      Line(<<"a">>, <<":">>, <<"5">>, <<"|">>, <<"g">>, <<"|", "@", "0", ".", "1">>),
      Line(<<"b">>, <<":">>, <<"1">>, <<"|">>, <<"s">>, <<>>),
      Line(<<>>, <<>>, <<>>, <<>>, <<>>, <<>>),
      Line(<<" ">>, <<>>, <<>>, <<>>, <<>>, <<>>),
      Line(<<>>, <<":">>, <<"1">>, <<"|">>, <<"c">>, <<>>),
      Line(<<"a">>, <<":">>, <<"1">>, <<>>, <<>>, <<>>),
      Line(<<"a">>, <<":">>, <<"1">>, <<"|">>, <<"c">>, <<"!">>) }

Batches == UNION {[1..k -> BatchLines] : k \in 2..MaxLines}

Inputs == {<<l>> : l \in PlainLines \cup RatedLines \cup BrokenLines} \cup Batches

(***************************************************************************)
(* The caller.                                                             *)
(***************************************************************************)
Init ==
    /\ lines \in Inputs
    /\ trailer \in {<<>>, <<NL>>}
    /\ input = Buffer(lines, trailer)
    /\ alnum_eof \in {"Done", "Error"}
    /\ called = ""
    /\ result = NoResult

CallStatsdMetric ==
    /\ called = ""
    /\ called' = "statsd_metric"
    /\ result' = statsd_metric(input)
    /\ UNCHANGED <<lines, trailer, input, alnum_eof>>

CallStatsd ==
    /\ called = ""
    /\ called' = "statsd"
    /\ result' = statsd(input)
    /\ UNCHANGED <<lines, trailer, input, alnum_eof>>

Next == CallStatsdMetric \/ CallStatsd

Spec == Init /\ [][Next]_vars

(***************************************************************************)
(* Vocabulary of the properties.                                           *)
(***************************************************************************)
Bytes(bs) == {bs[k] : k \in 1..Len(bs)}

IsText(bs) == BadByte \notin Bytes(bs)

StartsWithRate(bs) == Len(bs) >= 2 /\ Take(bs, 2) = <<"|", "@">>

\* name ":" value "|" token with a non-empty name without ':', a non-empty
\* value without '|' and a non-empty alphanumeric token; the suffix is free.
GoodFields(p) ==
    /\ p.sep1 = <<":">> /\ p.sep2 = <<"|">>
    /\ p.name # <<>> /\ ":" \notin Bytes(p.name) /\ IsText(p.name)
    /\ p.value # <<>> /\ "|" \notin Bytes(p.value) /\ IsText(p.value)
    /\ p.token # <<>> /\ \A b \in Bytes(p.token) : is_alphanumeric(b)

\* The suffix is "|@" and a valid floating-point literal.
GoodRate(p) == StartsWithRate(p.suffix) /\ f64_from_str(Drop(p.suffix, 2)).ok

\* A valid line of the grammar.
ValidLine(p) == GoodFields(p) /\ (p.suffix = <<>> \/ GoodRate(p))

\* The classification table of the type token.
TypeTable(t) ==
    IF t = <<"c">> THEN <<"Counter", None>>
    ELSE IF t = <<"g">> THEN <<"Gauge", None>>
    ELSE IF t = <<"s">> THEN <<"Set", None>>
    ELSE <<"Sample", Some(t)>>

Failed == result.tag \in {"Error", "Incomplete"}
Parsed == result.tag = "Done" /\ result.rest = <<>>

OneLine == Len(lines) = 1

\* A line that is empty or only whitespace.
Blank(p) == Bytes(Render(p)) \subseteq {" "}

(***************************************************************************)
(* C1: for every non-empty name without ':', non-empty value without '|'   *)
(* and non-empty alphanumeric token t, statsd_metric("name:value|t")       *)
(* succeeds with that name and value and with (metric_type, unit) given by *)
(* the case-sensitive table c -> (Counter, None), g -> (Gauge, None),      *)
(* s -> (Set, None), any other t -> (Sample, Some(t)); so unit is None     *)
(* exactly when metric_type is Counter, Gauge or Set.                      *)
(***************************************************************************)
C1_TypeTable ==
    (/\ called = "statsd_metric" /\ OneLine /\ trailer = <<>>
     /\ GoodFields(lines[1]) /\ lines[1].suffix = <<>>)
    => /\ Parsed
       /\ result.out.name = lines[1].name
       /\ result.out.value = lines[1].value
       /\ <<result.out.metric_type, result.out.unit>> = TypeTable(lines[1].token)
       /\ (result.out.unit = None
             <=> result.out.metric_type \in {"Counter", "Gauge", "Set"})

C1_Witness ==
    /\ called = "statsd_metric" /\ OneLine /\ trailer = <<>>
    /\ GoodFields(lines[1]) /\ lines[1].suffix = <<>>
    /\ lines[1].token = <<"C">>
    /\ NL \in Bytes(lines[1].name)
    /\ result.tag = "Done"
    /\ result.out.metric_type = "Sample"
    /\ result.out.unit = Some(<<"C">>)

AfterColon == Drop(input, Position(input, {":"}) + 1)
AfterBar == Drop(AfterColon, Position(AfterColon, {"|"}) + 1)

C3_MalformedFails ==
    (/\ called = "statsd_metric"
     /\ \/ input = <<>>
        \/ ":" \notin Bytes(input)
        \/ input[1] = ":"
        \/ "|" \notin Bytes(AfterColon)
        \/ AfterColon[1] = "|"
        \/ AfterBar = <<>>
        \/ ~is_alphanumeric(AfterBar[1]))
    => Failed

(***************************************************************************)
(* C4: when the token of an otherwise valid line is followed by "|@" and   *)
(* the rest of the line is not a valid float literal, statsd_metric fails; *)
(* it never succeeds with sample_rate = None and the suffix unconsumed.    *)
(***************************************************************************)
C4_BadRateFails ==
    (/\ called = "statsd_metric" /\ OneLine /\ trailer = <<>>
     /\ GoodFields(lines[1])
     /\ StartsWithRate(lines[1].suffix)
     /\ NL \notin Bytes(lines[1].suffix)
     /\ ~GoodRate(lines[1]))
    => Failed

(***************************************************************************)
(* C5: statsd_metric succeeds only when the whole line is consumed: a line *)
(* with bytes left after the token and the optional rate is an error, not  *)
(* a Metric with an unconsumed remainder.                                  *)
(***************************************************************************)
C5_WholeLineConsumed ==
    (called = "statsd_metric" /\ NL \notin Bytes(input) /\ result.tag = "Done")
    => result.rest = <<>>

(***************************************************************************)
(* C6: statsd is all-or-nothing: when any line of the buffer is malformed, *)
(* first, middle or last, the call fails and returns no records.           *)
(***************************************************************************)
C6_AllOrNothing ==
    (/\ called = "statsd" /\ Len(lines) >= 2
     /\ \A k \in 1..Len(lines) : ~Blank(lines[k])
     /\ \E k \in 1..Len(lines) : ~ValidLine(lines[k]))
    => Failed

(***************************************************************************)
(* C7: for valid lines l1..ln joined by "\n", statsd returns exactly n     *)
(* records and the i-th record is the Metric of statsd_metric(li).         *)
(***************************************************************************)
C7_OrderedRecords ==
    (/\ called = "statsd" /\ trailer = <<>>
     /\ \A k \in 1..Len(lines) : ValidLine(lines[k]))
    => /\ Parsed
       /\ Len(result.out) = Len(lines)
       /\ \A k \in 1..Len(lines) :
            LET m == statsd_metric(Render(lines[k]))
            IN  m.tag = "Done" /\ m.rest = <<>> /\ result.out[k] = m.out

C7_Witness ==
    /\ called = "statsd" /\ trailer = <<>>
    /\ Len(lines) = 3
    /\ \A k \in 1..Len(lines) : ValidLine(lines[k])
    /\ lines[1].token = <<"m", "s">> /\ lines[2].token = <<"g">> /\ lines[3].token = <<"c">>
    /\ result.tag = "Done"
    /\ Len(result.out) = 3
    /\ result.out[1].metric_type = "Sample"
    /\ result.out[2].sample_rate = Some(<<1, 1>>)
    /\ result.out[3].metric_type = "Counter"

(***************************************************************************)
(* C8: for every buffer b that statsd parses and that does not end in      *)
(* "\n", statsd(b + "\n") parses too, with exactly the same records.       *)
(***************************************************************************)
C8_TrailingNewline ==
    (/\ called = "statsd" /\ Parsed
     /\ input # <<>> /\ input[Len(input)] # NL)
    => LET r == statsd(input \o <<NL>>)
       IN  r.tag = "Done" /\ r.rest = <<>> /\ r.out = result.out

(***************************************************************************)
(* C9: statsd fails whenever the buffer has an embedded line that is empty *)
(* or only whitespace; the blank line is neither skipped nor absorbed into *)
(* the name of the following metric.                                       *)
(***************************************************************************)
C9_BlankLineFails ==
    (/\ called = "statsd" /\ Len(lines) >= 3
     /\ \E k \in 2..(Len(lines) - 1) : Blank(lines[k]))
    => Failed

(***************************************************************************)
(* C10: no record returned by statsd for a buffer of several lines spans a  *)
(* line boundary: the name and the value of every record contain no "\n",  *)
(* the name no ':' and the value no '|'.                                   *)
(***************************************************************************)
C10_NoRecordSpansLines ==
    (called = "statsd" /\ Len(lines) >= 2 /\ result.tag = "Done")
    => \A k \in 1..Len(result.out) :
         /\ NL \notin Bytes(result.out[k].name)
         /\ NL \notin Bytes(result.out[k].value)
         /\ ":" \notin Bytes(result.out[k].name)
         /\ "|" \notin Bytes(result.out[k].value)

====
